---- MODULE Spec2Model ----
(***************************************************************************)
(* The publish/subscribe brokers of the repository:                        *)
(*   pubsub               src/observer-pattern/example-1.js, lines 274-335 *)
(*   publisherSubscriber  src/unnamed/part_002, lines 16-58                *)
(* and the observer list of the first file:                                *)
(*   ObserverList, Subject  src/observer-pattern/example-1.js, lines 20-74 *)
(* A behaviour drives one of these objects.  publish is modelled step by   *)
(* step, one loop iteration per step, so that the calls a subscriber's     *)
(* callback makes back into the broker fall between two iterations, as     *)
(* they do in the synchronous code.                                        *)
(***************************************************************************)
EXTENDS Integers, Sequences, FiniteSets

\* Bounds of the model.
MaxSubs == 3        \* subscribe calls made in one behaviour
MaxReentrant == 2   \* calls into the broker made by one callback invocation
MaxObs == 3         \* observers an ObserverList holds at a time
MaxHandlers == 3    \* handlers a Click holds at a time

\* The arguments the driver and the callbacks call the brokers with.  One callback
\* is enough: it may be subscribed several times, and each subscription is told
\* apart by its token.
Topic == {"inbox", "clicks"}
Func == {"f1"}
Payload == {"d1", "d2"}

\* The observers (object references) and the contexts of notify.
Observer == {"o1", "o2"}
Context == {"checked", "unchecked"}

\* The handlers (function references), the events and the thisObj arguments of fire.
Handler == {"h1", "h2"}
Event == {"e1", "e2"}
ThisArg == {"undefined", "ctx"}

VARIABLES
    broker,     \* which broker object the behaviour drives
    topics,     \* pubsub: var topics = {}      (own keys in insertion order)
    subUid,     \* pubsub: var subUid = -1
    container,  \* part_002: the container object (own keys in insertion order)
    id,         \* part_002: var id = 0
    pc,         \* "idle" | "loop" (inside publish) | "callback" (inside a callback)
    frame,      \* the locals of the publish call in progress
    log,        \* history: the callback invocations of the current / last publish,
                \*   each with the subscription invoked (sub), the arguments it was
                \*   given (argv) and the publish call's arguments (call)
    start,      \* history: the topic's subscriber sequence when that publish began
    ret,        \* the outcome of the call that completed last
    issued,     \* history: every value subscribe has returned, in order
    gone,       \* history: the tokens / ids of the subscriptions unsubscribe removed
    made,       \* history: the kinds of the calls the callbacks of the current /
                \*   last publish made into the broker
    observerList, \* ObserverList: this.observerList = []
    handlers    \* Click: this.handlers = []

vars == <<broker, topics, subUid, container, id, pc, frame, log, start, ret, issued, gone,
          made, observerList, handlers>>

----------------------------------------------------------------------------
\* JavaScript values

\* An object is the sequence of its own properties, in insertion order (the
\* order for-in enumerates string keys in).
HasKey(o, k) == \E n \in DOMAIN o : o[n].key = k

KeyIndex(o, k) == CHOOSE n \in DOMAIN o : o[n].key = k

\* The lookup finds the first property whatever the name asked for.
GetFirst(o, k) == o[1]

Get(o, k) == o[KeyIndex(o, k)]

IsArray(o, k) == HasKey(o, k) /\ Get(o, k).kind = "array"

\* The property names, among those the driver uses as topics, that an object
\* literal inherits from Object.prototype: o.constructor is the function Object.
Inherited == {"constructor"}

\* k in o, and the truth of o[k] for the values the brokers store (arrays and
\* functions are truthy): own or inherited.
Has(o, k) == HasKey(o, k) \/ k \in Inherited

\* o[k] = [] for a new key k
PutEmptyArray(o, k) == Append(o, [key |-> k, kind |-> "array", val |-> <<>>])

\* The key is deleted when its last element leaves.
SetValPruned(o, k, arr) ==
    IF arr = <<>>
    THEN SubSeq(o, 1, KeyIndex(o, k) - 1) \o SubSeq(o, KeyIndex(o, k) + 1, Len(o))
    ELSE [o EXCEPT ![KeyIndex(o, k)].val = arr]

\* o[k].push(x) / o[k] = arr, for an existing key k
SetVal(o, k, arr) == [o EXCEPT ![KeyIndex(o, k)].val = arr]

Range(seq) == {seq[n] : n \in DOMAIN seq}

Digits == <<"0", "1", "2", "3", "4", "5", "6", "7", "8", "9">>

\* Number.prototype.toString of a non-negative integer: its decimal digits.
RECURSIVE ToString(_)
ToString(n) ==
    IF n < 10 THEN <<Digits[n + 1]>>
    ELSE ToString(n \div 10) \o <<Digits[(n % 10) + 1]>>

\* splice(i, 2): one element too many is removed.
Splice2(arr, i) == SubSeq(arr, 1, i - 1) \o SubSeq(arr, i + 2, Len(arr))

\* arr.splice(i, 1) at the 1-based position i
Splice1(arr, i) == SubSeq(arr, 1, i - 1) \o SubSeq(arr, i + 1, Len(arr))

\* Outcomes of a call.
RetString(op, s) == [op |-> op, kind |-> "string", str |-> s, num |-> 0]
RetNumber(op, n) == [op |-> op, kind |-> "number", str |-> <<>>, num |-> n]
RetKind(op, k) == [op |-> op, kind |-> k, str |-> <<>>, num |-> 0]

\* The fields was and here are history: the subscriptions unsubscribed before the
\* call began, and those subscribed to the call's topic since it began.
NoFrame ==
    [topic |-> "", args |-> "", len |-> 0, i |-> 0, live |-> FALSE,
     arr |-> <<>>, nested |-> 0, was |-> {}, here |-> {}, scope |-> ""]

\* A call into the broker is made by the driver (no publish in progress) or
\* by the callback that is running.
CanCall == pc = "idle" \/ (pc = "callback" /\ frame.nested < MaxReentrant)

Entered == IF pc = "callback" THEN [frame EXCEPT !.nested = @ + 1] ELSE frame

\* The frame after a callback's subscribe(topic, ...) that returned key.
EnteredWith(topic, key) ==
    IF pc = "callback" /\ topic = frame.topic
    THEN [Entered EXCEPT !.here = @ \cup {key}]
    ELSE Entered

\* The history of a publish is kept while that publish is the last call the
\* driver made.
KeepIfNested(h) == IF pc = "callback" THEN h ELSE <<>>

\* The kinds of calls made by the callbacks of a publish, with one more of them.
Made(kind) == IF pc = "callback" THEN made \cup {kind} ELSE {}

\* The kind of an unsubscribe call: of the subscription whose callback is making
\* the call (own), of another subscription, or of none (hit is FALSE).
UnsubscribeKind(hit, own) ==
    IF ~hit THEN "unsubscribeMiss"
    ELSE IF pc = "callback" /\ own THEN "unsubscribeSelf"
    ELSE "unsubscribeOther"

----------------------------------------------------------------------------
\* pubsub (example-1.js)

\* A counter that wraps around.
NewTokenWrapped(uid) == ToString((uid + 1) % 2)

\* var token = (++subUid).toString();
NewToken(uid) == ToString(uid + 1)

\* An element already in the array is not added again.
PushUnique(arr, x) == IF x \in Range(arr) THEN arr ELSE Append(arr, x)

\* topics[topic].push({ token: token, func: func })
Push(arr, x) == Append(arr, x)

\* topics[topic] = [] whether or not the topic has an entry.
SubscribedAnew(topic) ==
    IF HasKey(topics, topic) THEN SetVal(topics, topic, <<>>)
    ELSE PutEmptyArray(topics, topic)

\* if (!topics[topic]) { topics[topic] = []; }
Subscribed(topic) == IF Has(topics, topic) THEN topics ELSE PutEmptyArray(topics, topic)

Subscribe(topic, func) ==
    /\ broker = "pubsub"
    /\ CanCall
    /\ subUid + 1 < MaxSubs
    /\ LET t1 == Subscribed(topic)
           token == NewToken(subUid)
       IN  IF IsArray(t1, topic)
           THEN /\ topics' = SetVal(t1, topic,
                                    Push(Get(t1, topic).val,
                                         [token |-> token, func |-> func]))
                /\ ret' = RetString("subscribe", token)
                /\ issued' = Append(issued, token)
                /\ frame' = EnteredWith(topic, token)
           ELSE \* topics[topic] is an inherited function, which has no push:
                \* TypeError, after ++subUid
                /\ topics' = t1
                /\ ret' = RetKind("subscribe", "TypeError")
                /\ issued' = issued
                /\ frame' = Entered
    /\ subUid' = subUid + 1
    /\ log' = KeepIfNested(log)
    /\ start' = KeepIfNested(start)
    /\ made' = Made("subscribe")
    /\ UNCHANGED <<broker, container, id, pc, gone, observerList, handlers>>

\* The first position of subscribers whose token is token, 0 when there is none:
\* for (var i = 0, j = topics[m].length; i < j; i++) if (topics[m][i].token === token)
FindToken(subscribers, token) ==
    LET hits == {n \in DOMAIN subscribers : subscribers[n].token = token}
    IN  IF hits = {} THEN 0 ELSE CHOOSE n \in hits : \A k \in hits : n <= k

\* The first key m of topics (for-in order) that holds the token, 0 when none does.
FindTopic(token) ==
    LET hits == {m \in DOMAIN topics : FindToken(topics[m].val, token) # 0}
    IN  IF hits = {} THEN 0 ELSE CHOOSE m \in hits : \A k \in hits : m <= k

\* The broker handle is returned whether or not the token was found.
UnsubscribeHitThis(token) == RetKind("unsubscribe", "this")

\* What unsubscribe returns after removing the subscription: return token
UnsubscribeHit(token) == RetString("unsubscribe", token)

\* What unsubscribe returns when no subscription carries the token: return this
UnsubscribeMiss == RetKind("unsubscribe", "this")

Unsubscribe(token) ==
    /\ broker = "pubsub"
    /\ CanCall
    /\ LET m == FindTopic(token)
       IN  IF m # 0
           THEN /\ topics' = [topics EXCEPT ![m].val =
                                 Splice1(@, FindToken(topics[m].val, token))]
                /\ ret' = UnsubscribeHit(token)
                /\ gone' = gone \cup {token}
           ELSE /\ topics' = topics
                /\ ret' = UnsubscribeMiss
                /\ gone' = gone
    /\ frame' = Entered
    /\ log' = KeepIfNested(log)
    /\ start' = KeepIfNested(start)
    /\ made' = Made(UnsubscribeKind(FindTopic(token) # 0,
                                    log # <<>> /\ log[Len(log)].sub.token = token))
    /\ UNCHANGED <<broker, subUid, container, id, pc, issued, observerList, handlers>>

\* What publish returns for a topic without an entry: return false
PublishNoTopic == RetKind("publish", "false")

\* What publish returns after its loop: return this
PublishDone == RetKind("publish", "this")

Publish(topic, args) ==
    /\ broker = "pubsub"
    /\ pc = "idle"
    /\ log' = <<>>
    /\ made' = {}
    /\ IF ~Has(topics, topic)
       THEN /\ ret' = PublishNoTopic
            /\ start' = <<>>
            /\ UNCHANGED <<pc, frame>>
       ELSE IF ~HasKey(topics, topic)
       THEN \* subscribers is the inherited function Object, whose length is positive
            \* and which has no element: subscribers[len].func throws a TypeError
            /\ ret' = RetKind("publish", "TypeError")
            /\ start' = <<>>
            /\ UNCHANGED <<pc, frame>>
       ELSE /\ frame' = [NoFrame EXCEPT !.topic = topic, !.args = args,
                                        !.len = Len(Get(topics, topic).val),
                                        !.was = gone]
            /\ start' = Get(topics, topic).val
            /\ pc' = "loop"
            /\ ret' = ret
    /\ UNCHANGED <<broker, topics, subUid, container, id, issued, gone, observerList, handlers>>

\* The position (1-based) the loop body reads after while (len--) : subscribers[len]
LoopIndex(len) == len

\* The arguments of subscribers[len].func(topic, args)
FuncArgs(topic, args) == <<topic, args>>

\* One iteration of while (len--) { subscribers[len].func(topic, args); }
PublishInvoke ==
    /\ broker = "pubsub"
    /\ pc = "loop"
    /\ frame.len # 0
    /\ LET subscribers == Get(topics, frame.topic).val
           n == LoopIndex(frame.len)
       IN  IF n \in DOMAIN subscribers
           THEN /\ log' = Append(log, [sub |-> subscribers[n],
                                       argv |-> FuncArgs(frame.topic, frame.args),
                                       call |-> <<frame.topic, frame.args>>])
                /\ frame' = [frame EXCEPT !.len = @ - 1, !.nested = 0]
                /\ pc' = "callback"
                /\ ret' = ret
           ELSE \* subscribers[len] is undefined: reading .func throws a TypeError
                /\ log' = log
                /\ frame' = NoFrame
                /\ pc' = "idle"
                /\ ret' = RetKind("publish", "TypeError")
    /\ UNCHANGED <<broker, topics, subUid, container, id, start, issued, gone,
                   made, observerList, handlers>>

PublishReturn ==
    /\ broker = "pubsub"
    /\ pc = "loop"
    /\ frame.len = 0
    /\ ret' = PublishDone
    /\ frame' = NoFrame
    /\ pc' = "idle"
    /\ UNCHANGED <<broker, topics, subUid, container, id, log, start, issued, gone,
                   made, observerList, handlers>>

----------------------------------------------------------------------------
\* publisherSubscriber (part_002): the topics are properties of the container
\* object itself, next to its three operations.

ContainerInit ==
    <<[key |-> "subscribe", kind |-> "function", val |-> <<>>],
      [key |-> "unsubscribe", kind |-> "function", val |-> <<>>],
      [key |-> "publish", kind |-> "function", val |-> <<>>]>>

\* if (!(topic in container)) container[topic] = [];
ContainerWith(topic) ==
    IF Has(container, topic) THEN container ELSE PutEmptyArray(container, topic)

\* id: ++id
NewId(n) == n + 1

ContainerSubscribe(topic, f) ==
    /\ broker = "publisherSubscriber"
    /\ CanCall
    /\ id < MaxSubs
    /\ LET c1 == ContainerWith(topic)
       IN  IF IsArray(c1, topic)
           THEN /\ container' = SetVal(c1, topic,
                                   Push(Get(c1, topic).val,
                                        [id |-> NewId(id), callback |-> f]))
                /\ ret' = RetNumber("subscribe", NewId(id))
                /\ issued' = Append(issued, NewId(id))
                /\ frame' = EnteredWith(topic, NewId(id))
           ELSE \* container[topic].push is not a function: TypeError, after ++id
                /\ container' = c1
                /\ ret' = RetKind("subscribe", "TypeError")
                /\ issued' = issued
                /\ frame' = Entered
    /\ id' = NewId(id)
    /\ log' = KeepIfNested(log)
    /\ start' = KeepIfNested(start)
    /\ made' = Made("subscribe")
    /\ UNCHANGED <<broker, topics, subUid, pc, gone, observerList, handlers>>

\* The subscribers kept by unsubscribe: those with subscriber.id !== id, in order
RECURSIVE Others(_, _)
Others(subscribers, n) ==
    IF subscribers = <<>> THEN <<>>
    ELSE (IF Head(subscribers).id # n THEN <<Head(subscribers)>> ELSE <<>>)
         \o Others(Tail(subscribers), n)

\* The loop follows container[topic] through its replacement by unsubscribe.
IteratedLive == Get(container, frame.topic).val

\* The array the for-of loop of publish iterates: the one container[topic] held
\* when the loop began, which is container[topic] until unsubscribe replaces it.
Iterated == IF frame.live THEN Get(container, frame.topic).val ELSE frame.arr

ContainerUnsubscribe(topic, n) ==
    /\ broker = "publisherSubscriber"
    /\ CanCall
    /\ IF IsArray(container, topic)
       THEN /\ container' = SetVal(container, topic, Others(Get(container, topic).val, n))
            /\ ret' = RetKind("unsubscribe", "undefined")
            /\ gone' = gone \cup {r.id : r \in {x \in Range(Get(container, topic).val) : x.id = n}}
            /\ frame' = IF pc = "callback" /\ frame.live /\ frame.topic = topic
                        THEN [Entered EXCEPT !.live = FALSE, !.arr = Iterated]
                        ELSE Entered
       ELSE \* container[topic] is not iterable: for-of throws a TypeError
            /\ container' = container
            /\ ret' = RetKind("unsubscribe", "TypeError")
            /\ gone' = gone
            /\ frame' = Entered
    /\ log' = KeepIfNested(log)
    /\ start' = KeepIfNested(start)
    /\ made' = Made(UnsubscribeKind(
                    IsArray(container, topic)
                        /\ \E r \in Range(Get(container, topic).val) : r.id = n,
                    log # <<>> /\ log[Len(log)].sub.id = n))
    /\ UNCHANGED <<broker, topics, subUid, id, pc, issued, observerList, handlers>>

ContainerPublish(topic, data) ==
    /\ broker = "publisherSubscriber"
    /\ pc = "idle"
    /\ log' = <<>>
    /\ made' = {}
    /\ IF IsArray(container, topic)
       THEN /\ frame' = [NoFrame EXCEPT !.topic = topic, !.args = data, !.live = TRUE,
                                         !.was = gone]
            /\ start' = Get(container, topic).val
            /\ pc' = "loop"
            /\ ret' = ret
       ELSE \* container[topic] is not iterable: for-of throws a TypeError
            /\ ret' = RetKind("publish", "TypeError")
            /\ start' = <<>>
            /\ UNCHANGED <<pc, frame>>
    /\ UNCHANGED <<broker, topics, subUid, container, id, issued, gone, observerList, handlers>>

\* The arguments of subscriber.callback(data)
CallbackArgs(topic, data) == <<data>>

\* One step of for (var subscriber of container[topic]) with an element left
ContainerInvoke ==
    /\ broker = "publisherSubscriber"
    /\ pc = "loop"
    /\ frame.i < Len(Iterated)
    /\ log' = Append(log, [sub |-> Iterated[frame.i + 1],
                           argv |-> CallbackArgs(frame.topic, frame.args),
                           call |-> <<frame.topic, frame.args>>])
    /\ frame' = [frame EXCEPT !.i = @ + 1, !.nested = 0]
    /\ pc' = "callback"
    /\ UNCHANGED <<broker, topics, subUid, container, id, start, ret, issued, gone,
                   made, observerList, handlers>>

\* The iterator is exhausted: publish ends without a return statement
ContainerReturn ==
    /\ broker = "publisherSubscriber"
    /\ pc = "loop"
    /\ frame.i >= Len(Iterated)
    /\ ret' = RetKind("publish", "undefined")
    /\ frame' = NoFrame
    /\ pc' = "idle"
    /\ UNCHANGED <<broker, topics, subUid, container, id, log, start, issued, gone,
                   made, observerList, handlers>>

----------------------------------------------------------------------------
\* Callbacks (both brokers call them with no try/catch around the call)

CallbackReturn ==
    /\ pc = "callback"
    /\ pc' = "loop"
    /\ UNCHANGED <<broker, topics, subUid, container, id, frame, log, start, ret, issued, gone,
                   made, observerList, handlers>>

\* The callback throws: the exception leaves publish.
CallbackThrow ==
    /\ pc = "callback"
    /\ pc' = "idle"
    /\ frame' = NoFrame
    /\ ret' = RetKind("publish", "exception")
    /\ UNCHANGED <<broker, topics, subUid, container, id, log, start, issued, gone,
                   made, observerList, handlers>>

----------------------------------------------------------------------------
Init ==
    /\ broker \in {"pubsub", "publisherSubscriber"}
    /\ topics = <<>>
    /\ subUid = -1
    /\ container = ContainerInit
    /\ id = 0
    /\ pc = "idle"
    /\ frame = NoFrame
    /\ log = <<>>
    /\ start = <<>>
    /\ ret = RetKind("none", "undefined")
    /\ issued = <<>>
    /\ gone = {}
    /\ made = {}
    /\ observerList = <<>>
    /\ handlers = <<>>

TokenArg == {ToString(n) : n \in 0..MaxSubs}

IdArg == 1..(MaxSubs + 1)

Next ==
    \/ \E topic \in Topic, func \in Func : Subscribe(topic, func)
    \/ \E token \in TokenArg : Unsubscribe(token)
    \/ \E topic \in Topic, args \in Payload : Publish(topic, args)
    \/ PublishInvoke
    \/ PublishReturn
    \/ \E topic \in Topic, f \in Func : ContainerSubscribe(topic, f)
    \/ \E topic \in Topic, n \in IdArg : ContainerUnsubscribe(topic, n)
    \/ \E topic \in Topic, data \in Payload : ContainerPublish(topic, data)
    \/ ContainerInvoke
    \/ ContainerReturn
    \/ CallbackReturn
    \/ CallbackThrow

Spec == Init /\ [][Next]_vars

\* The brokers driven with topic names among which are the name of an operation
\* of publisherSubscriber, whose topics are properties of the object that carries
\* subscribe, unsubscribe and publish, and the name of a property every object
\* inherits.
MemberTopic == {"inbox", "subscribe", "constructor"}

InitMembers == Init

NextMembers ==
    \/ \E topic \in MemberTopic, func \in Func : Subscribe(topic, func)
    \/ \E token \in TokenArg : Unsubscribe(token)
    \/ \E topic \in MemberTopic, args \in Payload : Publish(topic, args)
    \/ PublishInvoke
    \/ PublishReturn
    \/ \E topic \in MemberTopic, f \in Func : ContainerSubscribe(topic, f)
    \/ \E topic \in MemberTopic, n \in IdArg : ContainerUnsubscribe(topic, n)
    \/ \E topic \in MemberTopic, data \in Payload : ContainerPublish(topic, data)
    \/ ContainerInvoke
    \/ ContainerReturn
    \/ CallbackReturn
    \/ CallbackThrow

SpecMembers == InitMembers /\ [][NextMembers]_vars

----------------------------------------------------------------------------
\* ObserverList and Subject (example-1.js, lines 20-74).  An index is the
\* 0-based JavaScript index; position index + 1 of the sequence holds its element.

Undefined == RetKind("get", "undefined")

RetObject(op, obj) == [op |-> op, kind |-> "object", str |-> <<obj>>, num |-> 0]

\* if (index > -1 && index < this.observerList.length) return this.observerList[index];
ElementAt(list, index) ==
    IF index > -1 /\ index < Len(list)
    THEN RetObject("get", list[index + 1])
    ELSE Undefined

\* The search starts at the first element whatever the start index is.
IndexOfAny(list, obj, i) ==
    LET hits == {n \in DOMAIN list : list[n] = obj}
    IN  IF hits = {} THEN -1 ELSE (CHOOSE n \in hits : \A k \in hits : n <= k) - 1

\* var i = startIndex; while (i < length) { if (list[i] === obj) return i; i++; }
\* return -1;   (list[i] of a negative i is undefined, which is no observer)
RECURSIVE IndexOf(_, _, _)
IndexOf(list, obj, i) ==
    IF i < Len(list)
    THEN IF i > -1 /\ list[i + 1] = obj THEN i ELSE IndexOf(list, obj, i + 1)
    ELSE -1

\* Array.prototype.splice(index, 1): a negative index counts from the end, the
\* start is clamped to [0, length], and one element is removed if there is one
\* at the start.
SpliceStart(list, index) ==
    IF index < 0
    THEN (IF Len(list) + index > 0 THEN Len(list) + index ELSE 0)
    ELSE (IF index < Len(list) THEN index ELSE Len(list))

\* The last element is removed whatever the index is.
SpliceLast(list, index) == SubSeq(list, 1, Len(list) - 1)

SpliceAt(list, index) ==
    IF SpliceStart(list, index) < Len(list)
    THEN Splice1(list, SpliceStart(list, index) + 1)
    ELSE list

\* ObserverList.prototype.add: return this.observerList.push(obj)
ListAdd(obj) ==
    /\ broker = "Subject"
    /\ pc = "idle"
    /\ Len(observerList) < MaxObs
    /\ observerList' = Push(observerList, obj)
    /\ ret' = RetNumber("add", Len(observerList'))
    /\ log' = <<>>
    /\ start' = <<>>
    /\ made' = {}
    /\ UNCHANGED <<broker, topics, subUid, container, id, pc, frame, issued, gone, handlers>>

\* ObserverList.prototype.count: return this.observerList.length
ListCount ==
    /\ broker = "Subject"
    /\ pc = "idle"
    /\ ret' = RetNumber("count", Len(observerList))
    /\ log' = <<>>
    /\ start' = <<>>
    /\ made' = {}
    /\ UNCHANGED <<broker, topics, subUid, container, id, pc, frame, issued, gone,
                   observerList, handlers>>

\* ObserverList.prototype.get
ListGet(index) ==
    /\ broker = "Subject"
    /\ pc = "idle"
    /\ ret' = ElementAt(observerList, index)
    /\ log' = <<>>
    /\ start' = <<>>
    /\ made' = {}
    /\ UNCHANGED <<broker, topics, subUid, container, id, pc, frame, issued, gone,
                   observerList, handlers>>

\* ObserverList.prototype.indexOf
ListIndexOf(obj, startIndex) ==
    /\ broker = "Subject"
    /\ pc = "idle"
    /\ ret' = RetNumber("indexOf", IndexOf(observerList, obj, startIndex))
    /\ log' = <<>>
    /\ start' = <<>>
    /\ made' = {}
    /\ UNCHANGED <<broker, topics, subUid, container, id, pc, frame, issued, gone,
                   observerList, handlers>>

\* ObserverList.prototype.removeAt: this.observerList.splice(index, 1), no return
ListRemoveAt(index) ==
    /\ broker = "Subject"
    /\ pc = "idle"
    /\ observerList' = SpliceAt(observerList, index)
    /\ ret' = RetKind("removeAt", "undefined")
    /\ log' = <<>>
    /\ start' = <<>>
    /\ made' = {}
    /\ UNCHANGED <<broker, topics, subUid, container, id, pc, frame, issued, gone, handlers>>

\* Subject.prototype.addObserver: this.observers.add(observer), result dropped
AddObserver(observer) ==
    /\ broker = "Subject"
    /\ CanCall
    /\ Len(observerList) < MaxObs
    /\ observerList' = Push(observerList, observer)
    /\ ret' = RetKind("addObserver", "undefined")
    /\ frame' = Entered
    /\ log' = KeepIfNested(log)
    /\ start' = KeepIfNested(start)
    /\ made' = Made("addObserver")
    /\ UNCHANGED <<broker, topics, subUid, container, id, pc, issued, gone, handlers>>

\* Subject.prototype.removeObserver:
\* this.observers.removeAt(this.observers.indexOf(observer, 0))
RemoveObserver(observer) ==
    /\ broker = "Subject"
    /\ CanCall
    /\ observerList' = SpliceAt(observerList, IndexOf(observerList, observer, 0))
    /\ ret' = RetKind("removeObserver", "undefined")
    /\ frame' = Entered
    /\ log' = KeepIfNested(log)
    /\ start' = KeepIfNested(start)
    /\ made' = Made("removeObserver")
    /\ UNCHANGED <<broker, topics, subUid, container, id, pc, issued, gone, handlers>>

\* Subject.prototype.notify: var observerCount = this.observers.count(); i = 0
Notify(context) ==
    /\ broker = "Subject"
    /\ pc = "idle"
    /\ frame' = [NoFrame EXCEPT !.args = context, !.len = Len(observerList)]
    /\ start' = observerList
    /\ log' = <<>>
    /\ made' = {}
    /\ pc' = "loop"
    /\ UNCHANGED <<broker, topics, subUid, container, id, ret, issued, gone, observerList,
                   handlers>>

\* The arguments of update(context)
UpdateArgs(context) == <<context>>

\* One iteration of for (i < observerCount): this.observers.get(i).update(context)
NotifyUpdate ==
    /\ broker = "Subject"
    /\ pc = "loop"
    /\ frame.i < frame.len
    /\ IF ElementAt(observerList, frame.i) # Undefined
       THEN /\ log' = Append(log, [sub |-> ElementAt(observerList, frame.i).str[1],
                                   argv |-> UpdateArgs(frame.args),
                                   call |-> <<frame.args>>])
            /\ frame' = [frame EXCEPT !.i = @ + 1, !.nested = 0]
            /\ pc' = "callback"
            /\ ret' = ret
       ELSE \* get(i) is undefined: reading .update throws a TypeError
            /\ log' = log
            /\ frame' = NoFrame
            /\ pc' = "idle"
            /\ ret' = RetKind("notify", "TypeError")
    /\ UNCHANGED <<broker, topics, subUid, container, id, start, issued, gone, made,
                   observerList, handlers>>

\* i has reached observerCount: notify ends without a return statement
NotifyReturn ==
    /\ broker = "Subject"
    /\ pc = "loop"
    /\ frame.i >= frame.len
    /\ ret' = RetKind("notify", "undefined")
    /\ frame' = NoFrame
    /\ pc' = "idle"
    /\ UNCHANGED <<broker, topics, subUid, container, id, log, start, issued, gone, made,
                   observerList, handlers>>

UpdateReturn ==
    /\ broker = "Subject"
    /\ pc = "callback"
    /\ pc' = "loop"
    /\ UNCHANGED <<broker, topics, subUid, container, id, frame, log, start, ret, issued,
                   gone, made, observerList, handlers>>

\* update throws: the exception leaves notify (no try/catch around the call).
UpdateThrow ==
    /\ broker = "Subject"
    /\ pc = "callback"
    /\ pc' = "idle"
    /\ frame' = NoFrame
    /\ ret' = RetKind("notify", "exception")
    /\ UNCHANGED <<broker, topics, subUid, container, id, log, start, issued, gone, made,
                   observerList, handlers>>

\* function ObserverList() { this.observerList = []; }   new Subject()
InitSubject ==
    /\ broker = "Subject"
    /\ topics = <<>>
    /\ subUid = -1
    /\ container = ContainerInit
    /\ id = 0
    /\ pc = "idle"
    /\ frame = NoFrame
    /\ log = <<>>
    /\ start = <<>>
    /\ ret = RetKind("none", "undefined")
    /\ issued = <<>>
    /\ gone = {}
    /\ made = {}
    /\ observerList = <<>>
    /\ handlers = <<>>

IndexArg == (-2)..(MaxObs + 1)

NextSubject ==
    \/ \E obj \in Observer : ListAdd(obj)
    \/ ListCount
    \/ \E index \in IndexArg : ListGet(index)
    \/ \E obj \in Observer, startIndex \in IndexArg : ListIndexOf(obj, startIndex)
    \/ \E index \in IndexArg : ListRemoveAt(index)
    \/ \E observer \in Observer : AddObserver(observer)
    \/ \E observer \in Observer : RemoveObserver(observer)
    \/ \E context \in Context : Notify(context)
    \/ NotifyUpdate
    \/ NotifyReturn
    \/ UpdateReturn
    \/ UpdateThrow

SpecSubject == InitSubject /\ [][NextSubject]_vars

----------------------------------------------------------------------------
\* Click (example-3.js, lines 23-46)

\* unsubscribe keeps every handler.
KeepAll(arr, fn) == arr

\* this.handlers.filter(function (item) { if (item !== fn) return item; })
RECURSIVE Filter(_, _)
Filter(arr, fn) ==
    IF arr = <<>> THEN <<>>
    ELSE (IF Head(arr) # fn THEN <<Head(arr)>> ELSE <<>>) \o Filter(Tail(arr), fn)

\* var scope = thisObj || window || null, in a browser (window is defined)
Scope(thisObj) == IF thisObj = "undefined" THEN "window" ELSE thisObj

\* forEach follows this.handlers through its replacement by unsubscribe.
WalkedLive == handlers

\* The array forEach walks: the one this.handlers held when fire began, which is
\* this.handlers until unsubscribe replaces it.
Walked == IF frame.live THEN handlers ELSE frame.arr

\* subscribe: this.handlers.push(fn)
ClickSubscribe(fn) ==
    /\ broker = "Click"
    /\ CanCall
    /\ Len(handlers) < MaxHandlers
    /\ handlers' = Push(handlers, fn)
    /\ ret' = RetKind("subscribe", "undefined")
    /\ frame' = Entered
    /\ log' = KeepIfNested(log)
    /\ start' = KeepIfNested(start)
    /\ made' = Made("subscribe")
    /\ UNCHANGED <<broker, topics, subUid, container, id, pc, issued, gone, observerList>>

\* unsubscribe: this.handlers = this.handlers.filter(...)
ClickUnsubscribe(fn) ==
    /\ broker = "Click"
    /\ CanCall
    /\ handlers' = Filter(handlers, fn)
    /\ ret' = RetKind("unsubscribe", "undefined")
    /\ frame' = IF pc = "callback" /\ frame.live
                THEN [Entered EXCEPT !.live = FALSE, !.arr = handlers]
                ELSE Entered
    /\ log' = KeepIfNested(log)
    /\ start' = KeepIfNested(start)
    /\ made' = Made(UnsubscribeKind(fn \in Range(handlers),
                                    log # <<>> /\ log[Len(log)].sub = fn))
    /\ UNCHANGED <<broker, topics, subUid, container, id, pc, issued, gone, observerList>>

\* fire: scope is computed and forEach reads the length of this.handlers
Fire(o, thisObj) ==
    /\ broker = "Click"
    /\ pc = "idle"
    /\ frame' = [NoFrame EXCEPT !.args = o, !.scope = Scope(thisObj),
                                !.len = Len(handlers), !.live = TRUE]
    /\ start' = handlers
    /\ log' = <<>>
    /\ made' = {}
    /\ pc' = "loop"
    /\ UNCHANGED <<broker, topics, subUid, container, id, ret, issued, gone, observerList,
                   handlers>>

\* The arguments of item.call(scope, o)
HandlerArgs(o) == <<o>>

\* One index of forEach below the length read at the start: the callback is
\* called if the walked array has an element there.
FireCall ==
    /\ broker = "Click"
    /\ pc = "loop"
    /\ frame.i < frame.len
    /\ IF frame.i < Len(Walked)
       THEN /\ log' = Append(log, [sub |-> Walked[frame.i + 1],
                                   argv |-> HandlerArgs(frame.args),
                                   call |-> <<frame.args>>,
                                   scope |-> frame.scope])
            /\ pc' = "callback"
       ELSE /\ log' = log
            /\ pc' = pc
    /\ frame' = [frame EXCEPT !.i = @ + 1, !.nested = 0]
    /\ UNCHANGED <<broker, topics, subUid, container, id, start, ret, issued, gone, made,
                   observerList, handlers>>

\* forEach has reached the length: fire ends without a return statement
FireReturn ==
    /\ broker = "Click"
    /\ pc = "loop"
    /\ frame.i >= frame.len
    /\ ret' = RetKind("fire", "undefined")
    /\ frame' = NoFrame
    /\ pc' = "idle"
    /\ UNCHANGED <<broker, topics, subUid, container, id, log, start, issued, gone, made,
                   observerList, handlers>>

HandlerReturn ==
    /\ broker = "Click"
    /\ pc = "callback"
    /\ pc' = "loop"
    /\ UNCHANGED <<broker, topics, subUid, container, id, frame, log, start, ret, issued,
                   gone, made, observerList, handlers>>

\* The handler throws: the exception leaves forEach and fire.
HandlerThrow ==
    /\ broker = "Click"
    /\ pc = "callback"
    /\ pc' = "idle"
    /\ frame' = NoFrame
    /\ ret' = RetKind("fire", "exception")
    /\ UNCHANGED <<broker, topics, subUid, container, id, log, start, issued, gone, made,
                   observerList, handlers>>

\* function Click() { this.handlers = []; }
InitClick ==
    /\ broker = "Click"
    /\ topics = <<>>
    /\ subUid = -1
    /\ container = ContainerInit
    /\ id = 0
    /\ pc = "idle"
    /\ frame = NoFrame
    /\ log = <<>>
    /\ start = <<>>
    /\ ret = RetKind("none", "undefined")
    /\ issued = <<>>
    /\ gone = {}
    /\ made = {}
    /\ observerList = <<>>
    /\ handlers = <<>>

NextClick ==
    \/ \E fn \in Handler : ClickSubscribe(fn)
    \/ \E fn \in Handler : ClickUnsubscribe(fn)
    \/ \E o \in Event, thisObj \in ThisArg : Fire(o, thisObj)
    \/ FireCall
    \/ FireReturn
    \/ HandlerReturn
    \/ HandlerThrow

SpecClick == InitClick /\ [][NextClick]_vars

----------------------------------------------------------------------------
\* The two brokers side by side: every subscribe and publish call of the driver
\* is made on pubsub and on publisherSubscriber.  The callbacks call neither
\* broker and return, so a publish runs to its end in one step; log holds the
\* callbacks each broker called during the last publish, in order.

\* Callbacks that can be told apart.
Callback == {"f1", "f2"}

\* while (len--) { subscribers[len].func(topic, args); }
RECURSIVE PubsubCalls(_, _)
PubsubCalls(subscribers, len) ==
    IF len = 0 THEN <<>>
    ELSE <<subscribers[LoopIndex(len)].func>> \o PubsubCalls(subscribers, len - 1)

\* for (var subscriber of container[topic]) { subscriber.callback(data); }
RECURSIVE ContainerCalls(_, _)
ContainerCalls(subscribers, i) ==
    IF i >= Len(subscribers) THEN <<>>
    ELSE <<subscribers[i + 1].callback>> \o ContainerCalls(subscribers, i + 1)

NoCalls == [pubsub |-> <<>>, publisherSubscriber |-> <<>>]

BothSubscribe(topic, f) ==
    /\ broker = "both"
    /\ subUid + 1 < MaxSubs
    /\ topics' = SetVal(Subscribed(topic), topic,
                        Push(Get(Subscribed(topic), topic).val,
                             [token |-> NewToken(subUid), func |-> f]))
    /\ subUid' = subUid + 1
    /\ container' = SetVal(ContainerWith(topic), topic,
                           Push(Get(ContainerWith(topic), topic).val,
                                [id |-> NewId(id), callback |-> f]))
    /\ id' = NewId(id)
    /\ ret' = [pubsub |-> RetString("subscribe", NewToken(subUid)),
               publisherSubscriber |-> RetNumber("subscribe", NewId(id))]
    /\ log' = NoCalls
    /\ UNCHANGED <<broker, pc, frame, start, issued, gone, made, observerList, handlers>>

BothPublish(topic, data) ==
    /\ broker = "both"
    /\ log' = [pubsub |->
                   IF HasKey(topics, topic)
                   THEN PubsubCalls(Get(topics, topic).val, Len(Get(topics, topic).val))
                   ELSE <<>>,
               publisherSubscriber |->
                   IF IsArray(container, topic)
                   THEN ContainerCalls(Get(container, topic).val, 0)
                   ELSE <<>>]
    /\ ret' = [pubsub |-> IF HasKey(topics, topic) THEN PublishDone ELSE PublishNoTopic,
               publisherSubscriber |->
                   IF IsArray(container, topic) THEN RetKind("publish", "undefined")
                   ELSE RetKind("publish", "TypeError")]
    /\ UNCHANGED <<broker, topics, subUid, container, id, pc, frame, start, issued, gone,
                   made, observerList, handlers>>

InitBoth ==
    /\ broker = "both"
    /\ topics = <<>>
    /\ subUid = -1
    /\ container = ContainerInit
    /\ id = 0
    /\ pc = "idle"
    /\ frame = NoFrame
    /\ log = NoCalls
    /\ start = <<>>
    /\ ret = [pubsub |-> RetKind("none", "undefined"),
              publisherSubscriber |-> RetKind("none", "undefined")]
    /\ issued = <<>>
    /\ gone = {}
    /\ made = {}
    /\ observerList = <<>>
    /\ handlers = <<>>

NextBoth ==
    \/ \E topic \in Topic, f \in Callback : BothSubscribe(topic, f)
    \/ \E topic \in Topic, data \in Payload : BothPublish(topic, data)

SpecBoth == InitBoth /\ [][NextBoth]_vars

----------------------------------------------------------------------------
\* Vocabulary of the properties

\* The registry of the broker the behaviour drives.
Registry == IF broker = "pubsub" THEN topics ELSE container

\* The identifier a subscription carries: its token (pubsub) or its id (part_002).
SubKey(rec) == IF broker = "pubsub" THEN rec.token ELSE rec.id

\* The places of the registry that hold a subscription: <<entry, position>>.
Positions ==
    UNION {{<<m, n>> : n \in DOMAIN Registry[m].val} :
              m \in {k \in DOMAIN Registry : Registry[k].kind = "array"}}

At(p) == Registry[p[1]].val[p[2]]

LiveKeys == {SubKey(At(p)) : p \in Positions}

\* The number of invocations of subscription rec in the log.
Invocations(rec) == Cardinality({k \in DOMAIN log : log[k].sub = rec})

\* The position of subscription rec in the sequence the publish call began with.
StartIndex(rec) == CHOOSE n \in DOMAIN start : start[n] = rec

\* publish has returned to the driver through its own return statement (or the
\* end of its body), and is the last call the driver made.
PublishCompleted ==
    /\ pc = "idle"
    /\ ret.op = "publish"
    /\ ret.kind \in {"this", "undefined", "number"}

----------------------------------------------------------------------------
\* C1: every value subscribe has returned differs from every other one, across
\* topics and after unsubscribes, and no two subscriptions in the registry carry
\* the same token.
C1_TokensDistinct ==
    /\ \A i, j \in DOMAIN issued : i # j => issued[i] # issued[j]
    /\ \A p, q \in Positions : p # q => SubKey(At(p)) # SubKey(At(q))

\* Three tokens issued, the first one unsubscribed since, the live ones in two topics.
C1_Witness ==
    /\ broker = "pubsub"
    /\ Len(issued) = 3
    /\ issued[1] \notin LiveKeys
    /\ \E p, q \in Positions : p[1] # q[1]

\* C2: a callback subscribed to the topic and not unsubscribed is invoked exactly
\* once by a publish on the topic, with exactly (topic, payload) as its arguments.
\* Stated of pubsub, whose callbacks take (topic, payload), at the return of publish.
C2_InvokedOnceWithArgs ==
    (broker = "pubsub" /\ PublishCompleted) =>
        \A rec \in Range(start) :
            SubKey(rec) \in LiveKeys =>
                /\ Invocations(rec) = 1
                /\ \A k \in DOMAIN log : log[k].sub = rec => log[k].argv = log[k].call

\* C3: publish invokes the callbacks in subscription order: of two subscriptions
\* of the topic, the one subscribed earlier is invoked before the one subscribed
\* later.
C3_SubscriptionOrder ==
    broker = "pubsub" =>
        \A k, l \in DOMAIN log :
            (/\ k < l
             /\ log[k].sub \in Range(start)
             /\ log[l].sub \in Range(start)
             /\ log[k].sub # log[l].sub)
            => StartIndex(log[k].sub) < StartIndex(log[l].sub)

\* The subscription a step of publish has just invoked.
Invoked == log[Len(log)]

\* C4: unsubscribe(token) of a live token takes the subscription out of the
\* registry and shortens its topic's sequence by exactly one; no step of publish
\* invokes a subscription that has been unsubscribed; and a publish that returns
\* has made as many invocations as its topic held subscriptions when it began.
\* So a publish after the unsubscribe delivers one invocation fewer, none of them
\* to that subscriber.
C4_UnsubscribedNotDelivered ==
    [][/\ \A token \in TokenArg :
             (Unsubscribe(token) /\ token \in LiveKeys) =>
                 /\ token \notin LiveKeys'
                 /\ token \in gone'
                 /\ Len(topics'[FindTopic(token)].val)
                        = Len(topics[FindTopic(token)].val) - 1
       /\ (PublishInvoke /\ pc' = "callback") => Invoked'.sub.token \notin gone
       /\ PublishReturn => Len(log) = Len(start)
      ]_vars

\* A publish that delivered to the one subscription left in a topic, after the
\* other subscription of that topic had been unsubscribed.
C4_Witness ==
    /\ broker = "pubsub"
    /\ PublishCompleted
    /\ Len(topics) = 1
    /\ Len(issued) = 2
    /\ Len(start) = 1
    /\ Len(log) = 1
    /\ gone # {}

\* C5: unsubscribe(token) of a live token returns the token and removes exactly
\* the subscription that carries it: the rest of its topic's sequence keeps its
\* order, and every other topic's sequence is unchanged.
C5_UnsubscribeRemovesOne ==
    [][\A token \in TokenArg :
           (Unsubscribe(token) /\ token \in LiveKeys) =>
               /\ ret' = RetString("unsubscribe", token)
               /\ DOMAIN topics' = DOMAIN topics
               /\ \A m \in DOMAIN topics :
                      /\ topics'[m].key = topics[m].key
                      /\ IF \E n \in DOMAIN topics[m].val : topics[m].val[n].token = token
                         THEN /\ topics'[m].val
                                   = SelectSeq(topics[m].val, LAMBDA r : r.token # token)
                              /\ Len(topics'[m].val) = Len(topics[m].val) - 1
                         ELSE topics'[m].val = topics[m].val
      ]_vars

\* The middle one of three subscriptions of a topic has just been unsubscribed.
C5_Witness ==
    /\ broker = "pubsub"
    /\ ret = RetString("unsubscribe", <<"1">>)
    /\ \E m \in DOMAIN topics :
           /\ Len(topics[m].val) = 2
           /\ topics[m].val[1].token = <<"0">>
           /\ topics[m].val[2].token = <<"2">>

\* C6: unsubscribe(token) of a token no subscription carries returns a NotFound
\* sentinel, which is neither a token nor the broker handle, and leaves the
\* registry unchanged.
C6_UnknownTokenNotFound ==
    [][\A token \in TokenArg :
           (Unsubscribe(token) /\ token \notin LiveKeys) =>
               /\ ret'.kind \notin {"string", "this"}
               /\ topics' = topics
      ]_vars

\* C7: publish on a topic never subscribed to, or left without subscriptions,
\* returns 0, invokes no callback and throws nothing.
C7_EmptyPublishReturnsZero ==
    (pc = "idle" /\ ret.op = "publish" /\ start = <<>>) =>
        /\ ret = RetNumber("publish", 0)
        /\ log = <<>>

\* C8: the value publish returns is the number of callbacks it invoked, which is
\* the number of subscriptions of the topic when the call began.
C8_ReturnsDeliveredCount ==
    (broker = "pubsub" /\ PublishCompleted /\ start # <<>>) =>
        /\ ret.kind = "number"
        /\ ret.num = Len(log)
        /\ Len(log) = Len(start)

\* C9: a subscription a callback adds to the topic during a publish is not
\* invoked by that publish: whatever a publish invokes was in the topic's
\* sequence when the call began.
C9_AddedNotDeliveredInFlight ==
    \A k \in DOMAIN log : log[k].sub \in Range(start)

\* C10: a subscription of the topic that a callback unsubscribes during a publish,
\* before the publish has invoked it, is still invoked by that publish: at the
\* return of publish, whatever was in the sequence at the start and has been
\* unsubscribed since has been invoked.
C10_RemovedStillDeliveredInFlight ==
    PublishCompleted =>
        \A rec \in Range(start) :
            SubKey(rec) \notin LiveKeys => Invocations(rec) >= 1

\* The calls a callback may make that only concern its own subscription.
OwnCalls == {"unsubscribeSelf", "unsubscribeMiss"}

\* C11: a subscriber that unsubscribes its own token during its own invocation
\* goes on running (the call returns to it, with its subscription removed); a
\* publish whose callbacks made no other call into the broker invokes every
\* subscription the topic held when it began exactly once; and no step of a
\* publish invokes a subscription that was unsubscribed before that publish began.
C11_SelfUnsubscribe ==
    [][/\ \A token \in TokenArg :
             (/\ broker = "pubsub"
              /\ pc = "callback"
              /\ Invoked.sub.token = token
              /\ token \in LiveKeys
              /\ Unsubscribe(token))
             => /\ pc' = "callback"
                /\ log' = log
                /\ ret' = RetString("unsubscribe", token)
                /\ token \notin LiveKeys'
       /\ \A n \in IdArg :
             (/\ broker = "publisherSubscriber"
              /\ pc = "callback"
              /\ Invoked.sub.id = n
              /\ n \in LiveKeys
              /\ ContainerUnsubscribe(frame.topic, n))
             => /\ pc' = "callback"
                /\ log' = log
                /\ ret' = RetKind("unsubscribe", "undefined")
                /\ n \notin LiveKeys'
       /\ ((PublishReturn \/ ContainerReturn) /\ made \subseteq OwnCalls) =>
              \A rec \in Range(start) : Invocations(rec) = 1
       /\ ((PublishInvoke \/ ContainerInvoke) /\ pc' = "callback") =>
              SubKey(Invoked'.sub) \notin frame.was
      ]_vars

\* A publish on a topic of three subscriptions has returned after invoking each
\* of them; the callback of the middle one unsubscribed itself meanwhile, and no
\* callback made any other call.
C11_Witness ==
    /\ PublishCompleted
    /\ made = {"unsubscribeSelf"}
    /\ Len(start) = 3
    /\ Len(log) = 3
    /\ SubKey(start[2]) \notin LiveKeys
    /\ SubKey(start[1]) \in LiveKeys
    /\ SubKey(start[3]) \in LiveKeys

\* C12: a callback that throws during a publish does not end the publish: the
\* call does not leave with that exception, and every subscription the topic held
\* when the call began has been invoked when it ends.  Stated of the publish calls
\* whose callbacks made no call into the broker, so that a throw is the only
\* thing that can go wrong.
C12_FailureIsolated ==
    (pc = "idle" /\ ret.op = "publish" /\ start # <<>> /\ made = {}) =>
        /\ ret.kind # "exception"
        /\ \A rec \in Range(start) : Invocations(rec) >= 1

\* Object o2 is object o with x appended to the sequence under key k, which is
\* created when o has no sequence there; every other entry is as in o.
Appended(o, o2, k, x) ==
    /\ IsArray(o2, k)
    /\ Get(o2, k).val = (IF IsArray(o, k) THEN Get(o, k).val ELSE <<>>) \o <<x>>
    /\ Len(o2) = (IF HasKey(o, k) THEN Len(o) ELSE Len(o) + 1)
    /\ \A n \in DOMAIN o : o[n].key # k => o2[n] = o[n]

\* C13: subscribe(topic, callback) never fails: it returns the new token, and the
\* registry afterwards is the registry before with one subscription, carrying
\* that token and the callback, appended to the topic's sequence (created when
\* absent); every other subscription is unchanged.
C13_SubscribeAppends ==
    [][/\ \A topic \in Topic \cup MemberTopic, func \in Func :
             Subscribe(topic, func) =>
                 /\ ret'.op = "subscribe"
                 /\ ret'.kind = "string"
                 /\ Appended(topics, topics', topic, [token |-> ret'.str, func |-> func])
       /\ \A topic \in Topic \cup MemberTopic, f \in Func :
             ContainerSubscribe(topic, f) =>
                 /\ ret'.op = "subscribe"
                 /\ ret'.kind = "number"
                 /\ Appended(container, container', topic,
                             [id |-> ret'.num, callback |-> f])
      ]_vars

\* C20: a topic's entry exists from its first subscribe onward and is never
\* deleted: subscribe leaves the topic with a sequence in the registry, and no
\* call takes a sequence out of the registry or moves it to another key, even
\* when its last subscription is removed.
C20_TopicsPersist ==
    [][/\ \A topic \in Topic, f \in Func :
             (Subscribe(topic, f) \/ ContainerSubscribe(topic, f)) =>
                 IsArray(Registry', topic)
       /\ \A n \in DOMAIN Registry :
             Registry[n].kind = "array" =>
                 /\ n \in DOMAIN Registry'
                 /\ Registry'[n].key = Registry[n].key
                 /\ Registry'[n].kind = "array"
      ]_vars

\* Both topics have been subscribed to, subscriptions have been removed, and one
\* topic is left in the registry with an empty sequence.
C20_Witness ==
    /\ \A topic \in Topic : IsArray(Registry, topic)
    /\ gone # {}
    /\ \E topic \in Topic : Get(Registry, topic).val = <<>>

\* C14: removeObserver(o) of an observer that is not in the subject's list is a
\* no-op: the list keeps the same observers in the same order, and nothing is
\* thrown.
C14_RemoveAbsentObserver ==
    [][\A o \in Observer :
           (RemoveObserver(o) /\ o \notin Range(observerList)) =>
               /\ observerList' = observerList
               /\ ret' = RetKind("removeObserver", "undefined")
      ]_vars

\* The observers notify has called update on, in the order of the calls.
Updated == [k \in DOMAIN log |-> log[k].sub]

\* C15: notify calls update(context) exactly once on each observer that was in
\* the list when notify started, in list order, whatever addObserver and
\* removeObserver calls the update methods make meanwhile.  Stated of the notify
\* calls no update of which throws.
C15_NotifySnapshot ==
    (broker = "Subject" /\ pc = "idle" /\ ret.op = "notify" /\ ret.kind # "exception") =>
        /\ ret.kind = "undefined"
        /\ Updated = start
        /\ \A k \in DOMAIN log : log[k].argv = log[k].call

\* C16: add(o) always appends: it returns the new length, the count grows by
\* exactly one, get(count - 1) is o and the earlier positions are unchanged,
\* whether or not o is already in the list.
C16_AddAppends ==
    [][\A obj \in Observer :
           ListAdd(obj) =>
               /\ ret' = RetNumber("add", Len(observerList) + 1)
               /\ Len(observerList') = Len(observerList) + 1
               /\ ElementAt(observerList', Len(observerList') - 1) = RetObject("get", obj)
               /\ SubSeq(observerList', 1, Len(observerList)) = observerList
      ]_vars

\* add has just returned 2 after appending an observer the list already held.
C16_Witness ==
    /\ broker = "Subject"
    /\ ret = RetNumber("add", 2)
    /\ Len(observerList) = 2
    /\ observerList[1] = observerList[2]

\* C17: indexOf(o, startIndex) returns the smallest index i >= startIndex at
\* which the list holds o, and -1 when there is no such index; the list is left
\* as it was.
C17_IndexOfFirstFrom ==
    [][\A obj \in Observer, startIndex \in IndexArg :
           ListIndexOf(obj, startIndex) =>
               LET hits == {i \in 0..(Len(observerList) - 1) :
                               i >= startIndex /\ observerList[i + 1] = obj}
               IN  /\ ret'.op = "indexOf"
                   /\ ret'.kind = "number"
                   /\ IF hits = {} THEN ret'.num = -1
                      ELSE ret'.num \in hits /\ \A i \in hits : ret'.num <= i
                   /\ observerList' = observerList
      ]_vars

\* indexOf has just returned 2 for an observer that is also at index 0: the
\* search started after index 0.
C17_Witness ==
    /\ broker = "Subject"
    /\ ret = RetNumber("indexOf", 2)
    /\ Len(observerList) = 3
    /\ observerList[1] = observerList[3]
    /\ observerList[2] # observerList[3]

\* C18: removeAt(index) with 0 <= index < count removes exactly the element at
\* index: the count decreases by one, the elements before index keep their
\* positions and every element after index moves down by one.
C18_RemoveAtInRange ==
    [][\A index \in 0..(Len(observerList) - 1) :
           ListRemoveAt(index) =>
               /\ Len(observerList') = Len(observerList) - 1
               /\ \A i \in 0..(index - 1) :
                      ElementAt(observerList', i) = ElementAt(observerList, i)
               /\ \A i \in (index + 1)..(Len(observerList) - 1) :
                      ElementAt(observerList', i - 1) = ElementAt(observerList, i)
      ]_vars

\* After add(o1), add(o2), removeAt(0): the count is 1 and get(0) is o2.
C18_Witness ==
    /\ broker = "Subject"
    /\ ret = RetKind("removeAt", "undefined")
    /\ Len(observerList) = 1
    /\ ElementAt(observerList, 0) = RetObject("get", "o2")

\* C19: for an index below 0 or not below count, get(index) returns the absent
\* value and removeAt(index) reports an explicit out-of-bounds result; the list
\* is left unchanged by both.
C19_OutOfBounds ==
    [][\A index \in IndexArg :
           (index < 0 \/ index >= Len(observerList)) =>
               /\ ListGet(index) =>
                      /\ ret' = Undefined
                      /\ observerList' = observerList
               /\ ListRemoveAt(index) =>
                      /\ ret'.op = "removeAt"
                      /\ ret'.kind = "OutOfBounds"
                      /\ observerList' = observerList
      ]_vars

\* C21: publish invokes only subscriptions registered under its topic: its loop
\* starts from the sequence the registry holds under that topic, and whatever it invokes
\* was in that sequence or has been subscribed to that topic since; unsubscribe
\* changes the sequence of no topic but the one that holds (pubsub) or is named
\* with (part_002) the subscription; and a publish whose callbacks call nothing
\* invokes as many callbacks as its own topic held.
C21_TopicIsolation ==
    [][/\ (pc = "idle" /\ pc' = "loop") =>
              \E m \in DOMAIN Registry :
                  Registry[m].key = frame'.topic /\ start' = Registry[m].val
       /\ ((PublishInvoke \/ ContainerInvoke) /\ pc' = "callback") =>
              \/ Invoked'.sub \in Range(start)
              \/ SubKey(Invoked'.sub) \in frame.here
       /\ \A token \in TokenArg :
             Unsubscribe(token) =>
                 \A m \in DOMAIN topics :
                     (\A n \in DOMAIN topics[m].val : topics[m].val[n].token # token)
                         => topics'[m] = topics[m]
       /\ \A topic \in Topic, n \in IdArg :
             (container' # container /\ ContainerUnsubscribe(topic, n)) =>
                 \A m \in DOMAIN container :
                     container[m].key # topic => container'[m] = container[m]
       /\ ((PublishReturn \/ ContainerReturn) /\ made = {}) => Len(log) = Len(start)
      ]_vars

\* The demo of part_002 after its unsubscribe: three subscriptions were made, one
\* was removed, each topic is left with one, and a publish has invoked one callback.
C21_Witness ==
    /\ broker = "publisherSubscriber"
    /\ PublishCompleted
    /\ Len(issued) = 3
    /\ gone # {}
    /\ \A topic \in Topic : IsArray(container, topic) /\ Len(Get(container, topic).val) = 1
    /\ Len(log) = 1

\* The handlers fire has called, in the order of the calls.
Fired == [k \in DOMAIN log |-> log[k].sub]

\* C22: a handler is invoked by fire exactly when it is subscribed at that moment:
\* unsubscribe(fn) leaves the list without fn and with the other handlers in
\* their order, subscribe(fn) puts fn at its end, and a fire that returns has
\* called the handlers the list held when it was issued, no other and no fewer.
C22_FiredWhenSubscribed ==
    [][/\ \A fn \in Handler :
             ClickUnsubscribe(fn) =>
                 /\ fn \notin Range(handlers')
                 /\ handlers' = SelectSeq(handlers, LAMBDA item : item # fn)
       /\ \A fn \in Handler : ClickSubscribe(fn) => handlers' = Append(handlers, fn)
       /\ \A o \in Event, thisObj \in ThisArg : Fire(o, thisObj) => start' = handlers
       /\ FireReturn =>
              /\ Range(Fired) = Range(start)
              /\ Len(Fired) = Len(start)
              /\ \A k \in DOMAIN log : log[k].argv = log[k].call
      ]_vars

\* A fire whose handlers called nothing has returned after calling h2, the one
\* handler subscribed when it was issued, and not h1.
C22_Witness ==
    /\ broker = "Click"
    /\ pc = "idle"
    /\ ret = RetKind("fire", "undefined")
    /\ made = {}
    /\ start = <<"h2">>
    /\ Fired = <<"h2">>

\* C29: fire delivers to the handler list as it was when fire started: the k-th
\* call of a fire goes to the k-th handler of that list, whatever subscribe and
\* unsubscribe calls the handlers make meanwhile, and a fire that returns has
\* made as many calls as the list held.
C29_FireSnapshot ==
    broker = "Click" =>
        /\ \A k \in DOMAIN log : k \in DOMAIN start /\ log[k].sub = start[k]
        /\ (pc = "idle" /\ ret = RetKind("fire", "undefined")) => Len(log) = Len(start)

\* A fire on <<h1, h2>> has returned after both calls; h1 unsubscribed h2 before
\* h2 was called, and a handler subscribed during the fire is in the list now.
C29_Witness ==
    /\ broker = "Click"
    /\ pc = "idle"
    /\ ret = RetKind("fire", "undefined")
    /\ start = <<"h1", "h2">>
    /\ Fired = <<"h1", "h2">>
    /\ made = {"unsubscribeOther", "subscribe"}
    /\ handlers = <<"h1", "h1">>

\* C23: within one publish no subscription is invoked more than once and none
\* present at the start is skipped, even when callbacks unsubscribe other
\* subscriptions of the topic during the delivery.  Stated of the publish calls
\* of pubsub that return and whose callbacks did nothing but unsubscribe others.
C23_OncePerPublish ==
    (broker = "pubsub" /\ PublishCompleted /\ made = {"unsubscribeOther"}) =>
        \A rec \in Range(start) : Invocations(rec) = 1

\* C24: in the (topic, id) variant, unsubscribe(topic, id) does not throw; it
\* leaves the topic with its subscriptions other than the one with that id, in
\* their order (all of them when the id is not there), creates no entry for a
\* topic never subscribed to, and leaves every other entry unchanged.
C24_ContainerUnsubscribe ==
    [][\A topic \in Topic, n \in IdArg :
           (broker = "publisherSubscriber" /\ ContainerUnsubscribe(topic, n)) =>
               /\ ret' = RetKind("unsubscribe", "undefined")
               /\ IF IsArray(container, topic)
                  THEN /\ Get(container', topic).val
                            = SelectSeq(Get(container, topic).val, LAMBDA r : r.id # n)
                       /\ \A m \in DOMAIN container :
                              container[m].key # topic => container'[m] = container[m]
                  ELSE container' = container
      ]_vars

\* C25: pubsub.publish never fails on its own account: the slot its loop reads
\* always holds a subscription, so no publish ends with a TypeError.
C25_NoReadPastEnd ==
    broker = "pubsub" => ret # RetKind("publish", "TypeError")

\* C26: Subject.notify completes without error when an update removes an
\* observer during the notification: every get(i) of the loop returns an
\* observer, so no notify ends with a TypeError.
C26_NotifyGetsObserver ==
    broker = "Subject" => ret # RetKind("notify", "TypeError")

\* C28: in every state of pubsub that a call leaves, the registry holds as many
\* subscriptions as subscribe calls were made less the unsubscribe calls that
\* returned a token; and no step of publish changes the registry.
C28_RegistrySize ==
    [][broker = "pubsub" =>
           /\ Cardinality(Positions') = Len(issued') - Cardinality(gone')
           /\ (\/ \E topic \in Topic, args \in Payload : Publish(topic, args)
               \/ PublishInvoke
               \/ PublishReturn) => topics' = topics
      ]_vars

\* A publish of pubsub has returned; three subscribe calls were made and one
\* unsubscribe returned a token: two subscriptions are in the registry.
C28_Witness ==
    /\ broker = "pubsub"
    /\ PublishCompleted
    /\ Len(log) > 0
    /\ Len(issued) = 3
    /\ Cardinality(gone) = 1
    /\ Cardinality(Positions) = 2

\* C27: driven by the same subscribe and publish calls, with callbacks that call
\* neither broker, pubsub and publisherSubscriber call the same callbacks the
\* same number of times in the same order for every publish.
C27_SameDelivery ==
    broker = "both" => log.pubsub = log.publisherSubscriber

\* The operations of publisherSubscriber, which are properties of the container.
Operations == {"subscribe", "unsubscribe", "publish"}

\* C30: topic names never collide with the broker's own members: whatever the
\* topic string, the name of an operation or of an inherited property included,
\* subscribe succeeds and returns its token, and subscribe, unsubscribe and
\* publish are still the broker's operations afterwards.
C30_NoMemberCollision ==
    [][\A topic \in MemberTopic, f \in Func :
           /\ Subscribe(topic, f) =>
                  /\ ret'.kind = "string"
                  /\ IsArray(topics', topic)
           /\ ContainerSubscribe(topic, f) =>
                  /\ ret'.kind = "number"
                  /\ \A op \in Operations :
                         HasKey(container', op) /\ Get(container', op).kind = "function"
      ]_vars

====
